---- MODULE Spec2Model ----
(***************************************************************************)
(* A model of parse_iso8601 (alternative-1-datetime-parsing/qualifier.py). *)
(*                                                                         *)
(* A string is a sequence of one-character strings.  A regex group that    *)
(* did not take part in the match is the value None; a group that matched  *)
(* the empty string is <<>>.                                               *)
(* The input alphabet is ASCII: \d is modelled on the digits 0-9.          *)
(***************************************************************************)
EXTENDS Integers, Sequences, FiniteSets

VARIABLES timestamp, pc, match, year, month, day, hour, minute, second,
          microsecond, tzinfo, raised, result

vars == <<timestamp, pc, match, year, month, day, hour, minute, second,
          microsecond, tzinfo, raised, result>>

None == <<"None">>

(***************************************************************************)
(* Strings and int()                                                       *)
(***************************************************************************)
Digit == {"0", "1", "2", "3", "4", "5", "6", "7", "8", "9"}

DigitVal(c) ==
    CASE c = "0" -> 0 [] c = "1" -> 1 [] c = "2" -> 2 [] c = "3" -> 3
      [] c = "4" -> 4 [] c = "5" -> 5 [] c = "6" -> 6 [] c = "7" -> 7
      [] c = "8" -> 8 [] c = "9" -> 9

\* int(s) for a non-empty string of decimal digits
RECURSIVE int(_)
int(s) ==
    IF Len(s) = 0 THEN 0
    ELSE 10 * int(SubSeq(s, 1, Len(s) - 1)) + DigitVal(s[Len(s)])

\* int(g or 0): a group that is None or empty counts as 0
intOr0(g) == IF g = None \/ g = <<>> THEN 0 ELSE int(g)

\* bool(s) of a string: the empty string is false
bool(s) == s /= <<>>

RECURSIVE Flatten(_)
Flatten(ss) == IF ss = <<>> THEN <<>> ELSE Head(ss) \o Flatten(Tail(ss))

(***************************************************************************)
(* datetime_regex.  Each Re... operator is one piece of the pattern: given *)
(* the subject s and a match state m (position and the groups captured so  *)
(* far) it returns the match states after that piece, in the order the     *)
(* backtracking engine tries them (greedy alternative first).              *)
(***************************************************************************)
\* the groups of a match; pos is the engine's position in the subject.
\* pos = 0 marks the None that re.match returns when nothing matches.
NoGroups ==
    [pos |-> 1, year |-> None, hyphen |-> None, month |-> None, day |-> None,
     hour |-> None, colon |-> None, minute |-> None, second |-> None,
     subsecond |-> None, timezone |-> None, sign |-> None, tz_hour |-> None,
     tz_minute |-> None]

\* \d{n} at position p
IsDigits(s, p, n) ==
    /\ p + n - 1 <= Len(s)
    /\ \A i \in p..(p + n - 1) : s[i] \in Digit

\* the literal lit at position p
IsLit(s, p, lit) ==
    /\ p + Len(lit) - 1 <= Len(s)
    /\ \A i \in 1..Len(lit) : s[p + i - 1] = lit[i]

Sub(s, p, n) == SubSeq(s, p, p + n - 1)

\* ^(?P<year>\d{4})(?P<hyphen>-?)(?P<month>\d{2})(?P=hyphen)(?P<day>\d{2})
ReDateWith(s, m, h) ==
    LET pm == m.pos + 4 + Len(h)
        pd == pm + 2 + Len(h)
    IN  IF /\ IsDigits(s, m.pos, 4)
           /\ IsLit(s, m.pos + 4, h)
           /\ IsDigits(s, pm, 2)
           /\ IsLit(s, pm + 2, h)
           /\ IsDigits(s, pd, 2)
        THEN << [m EXCEPT !.pos = pd + 2, !.year = Sub(s, m.pos, 4), !.hyphen = h,
                          !.month = Sub(s, pm, 2), !.day = Sub(s, pd, 2)] >>
        ELSE <<>>

ReDate(s, m) == ReDateWith(s, m, <<"-">>) \o ReDateWith(s, m, <<>>)

\* (?:\.(?P<subsecond>\d{1,6}))?
ReSubsecondLen(s, m, k) ==
    IF IsLit(s, m.pos, <<".">>) /\ IsDigits(s, m.pos + 1, k)
    THEN << [m EXCEPT !.pos = m.pos + 1 + k, !.subsecond = Sub(s, m.pos + 1, k)] >>
    ELSE <<>>

ReSubsecond(s, m) ==
    Flatten([i \in 1..6 |-> ReSubsecondLen(s, m, 7 - i)]) \o <<m>>

\* (?: (?P=colon) (?P<second>\d{2}) (?:\.(?P<subsecond>\d{1,6}))? )?
ReSecond(s, m) ==
    LET ps == m.pos + Len(m.colon)
    IN  (IF IsLit(s, m.pos, m.colon) /\ IsDigits(s, ps, 2)
         THEN ReSubsecond(s, [m EXCEPT !.pos = ps + 2, !.second = Sub(s, ps, 2)])
         ELSE <<>>)
        \o <<m>>

\* (?: (?P<colon>:?) (?P<minute>\d{2}) (?: ... )? )?
ReMinuteWith(s, m, c) ==
    LET pm == m.pos + Len(c)
    IN  IF IsLit(s, m.pos, c) /\ IsDigits(s, pm, 2)
        THEN ReSecond(s, [m EXCEPT !.pos = pm + 2, !.colon = c,
                                   !.minute = Sub(s, pm, 2)])
        ELSE <<>>

ReMinute(s, m) ==
    ReMinuteWith(s, m, <<":">>) \o ReMinuteWith(s, m, <<>>) \o <<m>>

\* (?: T (?P<hour>\d{2}) (?: ... )? )?
ReTime(s, m) ==
    (IF IsLit(s, m.pos, <<"T">>) /\ IsDigits(s, m.pos + 1, 2)
     THEN ReMinute(s, [m EXCEPT !.pos = m.pos + 3, !.hour = Sub(s, m.pos + 1, 2)])
     ELSE <<>>)
    \o <<m>>

\* (?::?(?P<tz_minute>\d{2}))?   with the group timezone closed after it
ReTzMinuteWith(s, m, c, start) ==
    LET pm == m.pos + Len(c)
    IN  IF IsLit(s, m.pos, c) /\ IsDigits(s, pm, 2)
        THEN << [m EXCEPT !.pos = pm + 2, !.tz_minute = Sub(s, pm, 2),
                          !.timezone = SubSeq(s, start, pm + 1)] >>
        ELSE <<>>

\* as ReTzMinute, with the offset's separator tied to the date's style
ReTzMinute_DateStyle(s, m, start) ==
    ReTzMinuteWith(s, m, IF bool(m.hyphen) THEN <<":">> ELSE <<>>, start)
    \o << [m EXCEPT !.timezone = SubSeq(s, start, m.pos - 1)] >>

ReTzMinute(s, m, start) ==
    ReTzMinuteWith(s, m, <<":">>, start) \o ReTzMinuteWith(s, m, <<>>, start)
    \o << [m EXCEPT !.timezone = SubSeq(s, start, m.pos - 1)] >>

\* (?P<timezone>Z| (?P<sign>\+|-) (?P<tz_hour>\d{2}) (?::?(?P<tz_minute>\d{2}))? )?
ReTimezone(s, m) ==
    (IF IsLit(s, m.pos, <<"Z">>)
     THEN << [m EXCEPT !.pos = m.pos + 1, !.timezone = <<"Z">>] >>
     ELSE <<>>)
    \o
    (IF /\ m.pos <= Len(s)
        /\ s[m.pos] \in {"+", "-"}
        /\ IsDigits(s, m.pos + 1, 2)
     THEN ReTzMinute(s, [m EXCEPT !.pos = m.pos + 3, !.sign = <<s[m.pos]>>,
                                  !.tz_hour = Sub(s, m.pos + 1, 2)], m.pos)
     ELSE <<>>)
    \o <<m>>

\* $ : at the end of the string, or just before a newline that ends it
ReEnd(s, m) ==
    \/ m.pos = Len(s) + 1
    \/ m.pos = Len(s) /\ s[Len(s)] = "\n"

\* the match states of the whole pattern up to $, in the engine's order
ReBody(s) ==
    LET afterDate == ReDate(s, NoGroups)
        afterTime == Flatten([i \in 1..Len(afterDate) |-> ReTime(s, afterDate[i])])
    IN  Flatten([i \in 1..Len(afterTime) |-> ReTimezone(s, afterTime[i])])

MatchNone == [NoGroups EXCEPT !.pos = 0]

\* re.match(datetime_regex, s): the groups of the first way to match, or None
re_match(s) ==
    LET ends == SelectSeq(ReBody(s), LAMBDA m : ReEnd(s, m))
    IN  IF ends = <<>> THEN MatchNone ELSE Head(ends)

(***************************************************************************)
(* float("0.<digits>") * 1000000 and int() of it, in IEEE-754 binary64.    *)
(* A natural number too wide for one machine integer is a sequence of      *)
(* 10-bit limbs, most significant first.  A double is [zero, m, e]: the    *)
(* value m * 2^e, with m a 53-bit mantissa held in six limbs.              *)
(***************************************************************************)
RECURSIVE Pow10(_)
Pow10(n) == IF n = 0 THEN 1 ELSE 10 * Pow10(n - 1)

\* floor(a / 2^k)
BigShr(a, k) ==
    LET q == k \div 10
        j == k % 10
    IN  [i \in 1..(Len(a) - q) |->
            (IF i = 1 THEN 0 ELSE a[i - 1] % (2^j)) * (2^(10 - j)) + a[i] \div (2^j)]

\* bit k of a (bit 0 is the least significant)
BigBit(a, k) == (a[Len(a) - k \div 10] \div (2^(k % 10))) % 2

\* a mod 2^k = 0
BigLowZero(a, k) ==
    LET q == k \div 10
        j == k % 10
    IN  /\ \A i \in (Len(a) - q + 1)..Len(a) : a[i] = 0
        /\ q >= Len(a) \/ a[Len(a) - q] % (2^j) = 0

\* a + 1
BigInc(a) ==
    LET n == Len(a)
        t == Cardinality({k \in 1..n : \A i \in (n - k + 1)..n : a[i] = 1023})
    IN  IF t = n THEN <<1>> \o [i \in 1..n |-> 0]
        ELSE [i \in 1..n |-> IF i > n - t THEN 0
                             ELSE IF i = n - t THEN a[i] + 1 ELSE a[i]]

\* the number of bits of a > 0
BigBitLen(a) ==
    LET nz == {i \in 1..Len(a) : a[i] /= 0}
        top == CHOOSE i \in nz : \A j \in nz : i <= j
    IN  10 * (Len(a) - top)
        + (CHOOSE k \in 1..10 : 2^(k - 1) <= a[top] /\ a[top] < 2^k)

RECURSIVE BigVal(_)
BigVal(a) ==
    IF a = <<>> THEN 0 ELSE 1024 * BigVal(SubSeq(a, 1, Len(a) - 1)) + a[Len(a)]

\* round-to-nearest, ties-to-even, of a (at least 53 bits long) to a 53-bit
\* mantissa; sticky says that a is the floor of a value with a non-zero
\* fraction.  dropped is the number of low bits the mantissa lost.
Round53(a, sticky) ==
    LET d == BigBitLen(a) - 53
        keep == BigShr(a, d)
        up == /\ d > 0
              /\ BigBit(a, d - 1) = 1
              /\ \/ sticky
                 \/ ~BigLowZero(a, d - 1)
                 \/ BigBit(keep, 0) = 1
        inc == BigInc(keep)
        six(x) == SubSeq(x, Len(x) - 5, Len(x))
    IN  IF ~up THEN [m |-> six(keep), dropped |-> d]
        ELSE IF BigBitLen(inc) = 54 THEN [m |-> six(BigShr(inc, 1)), dropped |-> d + 1]
        ELSE [m |-> six(inc), dropped |-> d]

\* the next k limbs of the binary expansion of r/den (r < den), and what is left
RECURSIVE DivLimbs(_, _, _)
DivLimbs(r, den, k) ==
    IF k = 0 THEN [limbs |-> <<>>, rem |-> r]
    ELSE LET rest == DivLimbs((r * 1024) % den, den, k - 1)
         IN  [limbs |-> <<(r * 1024) \div den>> \o rest.limbs, rem |-> rest.rem]

\* float(f"0.{d}") for a string d of 1..6 digits: the double nearest to
\* int(d) / 10^len(d)
float_0dot(d) ==
    LET D == int(d)
        den == Pow10(Len(d))
        \* D * 2^z / den lies in [1/2, 1)
        z == Cardinality({k \in 1..20 : D <= (den - 1) \div (2^k)})
        r == D * (2^z)
        q == DivLimbs((8 * r) % den, den, 6)
        a == <<(8 * r) \div den>> \o q.limbs
        rnd == Round53(a, q.rem /= 0)
    IN  IF D = 0 THEN [zero |-> TRUE, m |-> <<>>, e |-> 0]
        ELSE [zero |-> FALSE, m |-> rnd.m, e |-> rnd.dropped - 63 - z]

\* a * c + carry for an integer 0 < c <= 1000000
RECURSIVE MulLimbs(_, _, _)
MulLimbs(a, c, carry) ==
    IF a = <<>>
    THEN <<carry \div (1024 * 1024), (carry \div 1024) % 1024, carry % 1024>>
    ELSE LET t == a[Len(a)] * c + carry
         IN  MulLimbs(SubSeq(a, 1, Len(a) - 1), c, t \div 1024) \o <<t % 1024>>

\* x * c in binary64, for a double x >= 0 and an integer 0 < c <= 1000000
float_mul(x, c) ==
    LET rnd == Round53(MulLimbs(x.m, c, 0), FALSE)
    IN  IF x.zero THEN x ELSE [zero |-> FALSE, m |-> rnd.m, e |-> x.e + rnd.dropped]

\* int(x) for a double 0 <= x < 2^30: truncation toward zero
int_of_float(x) ==
    IF x.zero THEN 0
    ELSE IF x.e <= 0 THEN BigVal(BigShr(x.m, 0 - x.e))
    ELSE BigVal(x.m) * (2^(x.e))

\* int(float(f"0.{subsec_match}") * 1000000)
MicrosecondOf(subsec_match) ==
    int_of_float(float_mul(float_0dot(subsec_match), 1000000))

(***************************************************************************)
(* The checks of parse_iso8601                                             *)
(***************************************************************************)
ErrFormat == "The string is not in the format as specified by ISO-8601 (limited to the requirements in README.md)."
ErrTruncation == "Date and time must be both truncated or untruncated."
ErrYear == "The year value is out of range."
ErrMonth == "The month value is out of range."
ErrHour == "The hour value is out of range."
ErrMinute == "The minute value is out of range."
ErrSecond == "The second value is out of range."
ErrTzHour == "The timezone hour offset value is out of range."
ErrTzMinute == "The timezone minute offset value is out of range."
ErrDay == "The day value is out of range for the month."
\* what the standard library raises when it is handed a value outside its domain
ErrKey == "KeyError: days_in_month[month]"
ErrTimezoneCtor == "ValueError: datetime.timezone(offset)"
ErrDatetimeCtor == "ValueError: datetime.datetime(...)"

\* as TruncationMixed, with the time separator tested for truth, not for None
TruncationMixed_Truthy(date_seperator, time_seperator) ==
    /\ time_seperator /= None
    /\ bool(time_seperator)
    /\ bool(date_seperator) /= bool(time_seperator)

\* time_seperator is not None and (bool(date_seperator) != bool(time_seperator))
TruncationMixed(date_seperator, time_seperator) ==
    time_seperator /= None /\ bool(date_seperator) /= bool(time_seperator)

\* as YearInRange, from 1900 on
YearInRange_From1900(y) == ~(y < 1900)
YearInRange(y) == ~(y < 1)
\* as MonthInRange, with 0 let through
MonthInRange_FromZero(m) == 0 <= m /\ m <= 12
MonthInRange(m) == 1 <= m /\ m <= 12
HourInRange(h) == 0 <= h /\ h <= 23
MinuteInRange(mi) == 0 <= mi /\ mi <= 59
\* as SecondInRange, with the leap second let through
SecondInRange_Leap(s) == 0 <= s /\ s <= 60
SecondInRange(s) == 0 <= s /\ s <= 59
TzHourInRange(h) == 0 <= h /\ h <= 23
TzMinuteInRange(mi) == 0 <= mi /\ mi <= 59

\* sign = 1 if match.group("sign") == "+" else -1
SignOf(g) == IF g = <<"+">> THEN 1 ELSE -1

\* as OffsetMinutes, with the sign put on the hours alone
OffsetMinutes_SignOnHours(tz_hour, tz_minute, sign) == 60 * (tz_hour * sign) + tz_minute

\* datetime.timedelta(hours=tz_hour * sign, minutes=tz_minute * sign), in minutes
OffsetMinutes(tz_hour, tz_minute, sign) == 60 * (tz_hour * sign) + tz_minute * sign

\* datetime.timezone(offset) takes an offset strictly between -24 h and 24 h
TimezoneCtorOK(offset) == -1440 < offset /\ offset < 1440

\* as TimezoneError, with the minute checked before the hour
TimezoneError_MinuteFirst(tz_hour, tz_minute, offset) ==
    IF ~TzMinuteInRange(tz_minute) THEN ErrTzMinute
    ELSE IF ~TzHourInRange(tz_hour) THEN ErrTzHour
    ELSE IF ~TimezoneCtorOK(offset) THEN ErrTimezoneCtor
    ELSE ""

\* the else branch of the timezone statement: the message of what it raises,
\* "" when it builds the timezone
TimezoneError(tz_hour, tz_minute, offset) ==
    IF ~TzHourInRange(tz_hour) THEN ErrTzHour
    ELSE IF ~TzMinuteInRange(tz_minute) THEN ErrTzMinute
    ELSE IF ~TimezoneCtorOK(offset) THEN ErrTimezoneCtor
    ELSE ""

\* as DaysInFebruary, without the century rule
DaysInFebruary_NoCentury(y) == IF y % 4 = 0 THEN 29 ELSE 28

DaysInFebruary(y) ==
    LET a == IF y % 4 = 0 THEN 29 ELSE 28
    IN  IF y % 100 = 0 /\ y % 400 /= 0 THEN 28 ELSE a

DaysInMonth(y) ==
    [m \in 1..12 |->
        CASE m = 2 -> DaysInFebruary(y)
          [] m \in {4, 6, 9, 11} -> 30
          [] OTHER -> 31]

DayInRange(d, m, y) == 1 <= d /\ d <= DaysInMonth(y)[m]

\* the domain of datetime.datetime(year, month, day, hour, minute, second, microsecond)
DatetimeCtorOK(y, m, d, h, mi, s, us) ==
    /\ 1 <= y /\ y <= 9999
    /\ 1 <= m /\ m <= 12
    /\ 1 <= d
    /\ d <= (IF m = 2
             THEN (IF y % 4 = 0 /\ (y % 100 /= 0 \/ y % 400 = 0) THEN 29 ELSE 28)
             ELSE IF m \in {4, 6, 9, 11} THEN 30 ELSE 31)
    /\ 0 <= h /\ h <= 23
    /\ 0 <= mi /\ mi <= 59
    /\ 0 <= s /\ s <= 59
    /\ 0 <= us /\ us <= 999999

\* parse_iso8601(timestamp) as a function of its argument: the exception
\* message it raises ("" when it returns) and the value it returns
parse_iso8601(s) ==
    LET m == re_match(s)
        y == int(m.year)
        mo == int(m.month)
        h == intOr0(m.hour)
        mi == intOr0(m.minute)
        sec == intOr0(m.second)
        us == IF m.subsecond /= None THEN MicrosecondOf(m.subsecond) ELSE 0
        tz_hour == int(m.tz_hour)
        tz_minute == intOr0(m.tz_minute)
        offset == OffsetMinutes(tz_hour, tz_minute, SignOf(m.sign))
        tz == IF m.timezone = None THEN <<>>
              ELSE IF m.timezone = <<"Z">> THEN <<0>> ELSE <<offset>>
        d == int(m.day)
        raises(msg) == [raised |-> msg, result |-> <<>>]
    IN  IF m.pos = 0 THEN raises(ErrFormat)
        ELSE IF TruncationMixed(m.hyphen, m.colon) THEN raises(ErrTruncation)
        ELSE IF ~YearInRange(y) THEN raises(ErrYear)
        ELSE IF ~MonthInRange(mo) THEN raises(ErrMonth)
        ELSE IF ~HourInRange(h) THEN raises(ErrHour)
        ELSE IF ~MinuteInRange(mi) THEN raises(ErrMinute)
        ELSE IF ~SecondInRange(sec) THEN raises(ErrSecond)
        ELSE IF /\ m.timezone \notin {None, <<"Z">>}
                /\ TimezoneError(tz_hour, tz_minute, offset) /= ""
        THEN raises(TimezoneError(tz_hour, tz_minute, offset))
        ELSE IF 1 <= d /\ mo \notin DOMAIN DaysInMonth(y) THEN raises(ErrKey)
        ELSE IF ~DayInRange(d, mo, y) THEN raises(ErrDay)
        ELSE IF ~DatetimeCtorOK(y, mo, d, h, mi, sec, us) THEN raises(ErrDatetimeCtor)
        ELSE [raised |-> "",
              result |-> << [year |-> y, month |-> mo, day |-> d, hour |-> h,
                             minute |-> mi, second |-> sec, microsecond |-> us,
                             tzinfo |-> tz] >>]

(***************************************************************************)
(* The call.  pc is the statement about to run; a local that has not been  *)
(* assigned yet holds -1 (tzinfo: <<>>, which is also Python's None once   *)
(* the timezone statement has run).  raised is the message of the          *)
(* exception that ended the call ("" while none has), result the sequence  *)
(* of the value returned (empty while none has).                           *)
(***************************************************************************)
Raise(msg) == pc' = "done" /\ raised' = msg

\* if match := re.match(datetime_regex, timestamp): ... raise ValueError(...)
Match ==
    /\ pc = "match"
    /\ match' = re_match(timestamp)
    /\ IF match'.pos /= 0
       THEN pc' = "truncation" /\ UNCHANGED raised
       ELSE Raise(ErrFormat)
    /\ UNCHANGED <<timestamp, year, month, day, hour, minute, second,
                   microsecond, tzinfo, result>>

CheckTruncation ==
    /\ pc = "truncation"
    /\ IF TruncationMixed(match.hyphen, match.colon)
       THEN Raise(ErrTruncation)
       ELSE pc' = "year" /\ UNCHANGED raised
    /\ UNCHANGED <<timestamp, match, year, month, day, hour, minute, second,
                   microsecond, tzinfo, result>>

CheckYear ==
    /\ pc = "year"
    /\ year' = int(match.year)
    /\ IF YearInRange(year')
       THEN pc' = "month" /\ UNCHANGED raised
       ELSE Raise(ErrYear)
    /\ UNCHANGED <<timestamp, match, month, day, hour, minute, second,
                   microsecond, tzinfo, result>>

CheckMonth ==
    /\ pc = "month"
    /\ month' = int(match.month)
    /\ IF MonthInRange(month')
       THEN pc' = "hour" /\ UNCHANGED raised
       ELSE Raise(ErrMonth)
    /\ UNCHANGED <<timestamp, match, year, day, hour, minute, second,
                   microsecond, tzinfo, result>>

CheckHour ==
    /\ pc = "hour"
    /\ hour' = intOr0(match.hour)
    /\ IF HourInRange(hour')
       THEN pc' = "minute" /\ UNCHANGED raised
       ELSE Raise(ErrHour)
    /\ UNCHANGED <<timestamp, match, year, month, day, minute, second,
                   microsecond, tzinfo, result>>

CheckMinute ==
    /\ pc = "minute"
    /\ minute' = intOr0(match.minute)
    /\ IF MinuteInRange(minute')
       THEN pc' = "second" /\ UNCHANGED raised
       ELSE Raise(ErrMinute)
    /\ UNCHANGED <<timestamp, match, year, month, day, hour, second,
                   microsecond, tzinfo, result>>

CheckSecond ==
    /\ pc = "second"
    /\ second' = intOr0(match.second)
    /\ IF SecondInRange(second')
       THEN pc' = "microsecond" /\ UNCHANGED raised
       ELSE Raise(ErrSecond)
    /\ UNCHANGED <<timestamp, match, year, month, day, hour, minute,
                   microsecond, tzinfo, result>>

CheckMicrosecond ==
    /\ pc = "microsecond"
    /\ microsecond' = IF match.subsecond /= None
                      THEN MicrosecondOf(match.subsecond)
                      ELSE 0
    /\ pc' = "timezone"
    /\ UNCHANGED <<timestamp, match, year, month, day, hour, minute, second,
                   tzinfo, raised, result>>

CheckTimezone ==
    /\ pc = "timezone"
    /\ LET tz_hour == int(match.tz_hour)
           tz_minute == intOr0(match.tz_minute)
           offset == OffsetMinutes(tz_hour, tz_minute, SignOf(match.sign))
       IN  IF match.timezone = None
           THEN tzinfo' = <<>> /\ pc' = "day" /\ UNCHANGED raised
           ELSE IF match.timezone = <<"Z">>
           THEN tzinfo' = <<0>> /\ pc' = "day" /\ UNCHANGED raised
           ELSE IF TimezoneError(tz_hour, tz_minute, offset) /= ""
           THEN Raise(TimezoneError(tz_hour, tz_minute, offset)) /\ UNCHANGED tzinfo
           ELSE tzinfo' = <<offset>> /\ pc' = "day" /\ UNCHANGED raised
    /\ UNCHANGED <<timestamp, match, year, month, day, hour, minute, second,
                   microsecond, result>>

\* 1 <= (day := int(match.group("day"))) <= days_in_month[month]: the chained
\* comparison looks the month up only when 1 <= day
CheckDay ==
    /\ pc = "day"
    /\ day' = int(match.day)
    /\ IF 1 <= day' /\ month \notin DOMAIN DaysInMonth(year)
       THEN Raise(ErrKey)
       ELSE IF DayInRange(day', month, year)
       THEN pc' = "return" /\ UNCHANGED raised
       ELSE Raise(ErrDay)
    /\ UNCHANGED <<timestamp, match, year, month, hour, minute, second,
                   microsecond, tzinfo, result>>

Return ==
    /\ pc = "return"
    /\ IF DatetimeCtorOK(year, month, day, hour, minute, second, microsecond)
       THEN /\ result' = << [year |-> year, month |-> month, day |-> day,
                             hour |-> hour, minute |-> minute, second |-> second,
                             microsecond |-> microsecond, tzinfo |-> tzinfo] >>
            /\ pc' = "done"
            /\ UNCHANGED raised
       ELSE Raise(ErrDatetimeCtor) /\ UNCHANGED result
    /\ UNCHANGED <<timestamp, match, year, month, day, hour, minute, second,
                   microsecond, tzinfo>>

Next ==
    \/ Match
    \/ CheckTruncation
    \/ CheckYear
    \/ CheckMonth
    \/ CheckHour
    \/ CheckMinute
    \/ CheckSecond
    \/ CheckMicrosecond
    \/ CheckTimezone
    \/ CheckDay
    \/ Return

(***************************************************************************)
(* The inputs checked                                                      *)
(***************************************************************************)
DigitChars == <<"0", "1", "2", "3", "4", "5", "6", "7", "8", "9">>

\* n written with two, with four decimal digits
Str2(n) == <<DigitChars[((n \div 10) % 10) + 1], DigitChars[(n % 10) + 1]>>
Str4(n) == Str2(n \div 100) \o Str2(n % 100)

\* the strings over the alphabet A of length 0..n
RECURSIVE StringsUpTo(_, _)
StringsUpTo(A, n) ==
    IF n = 0 THEN {<<>>}
    ELSE LET shorter == StringsUpTo(A, n - 1)
         IN  shorter \cup {s \o <<c>> : s \in shorter, c \in A}

\* years this far from 1583, 1900, 2000, 2004 and 9999 are tried
YearSpan == 1
\* months 00..MaxMonth and days 00..MaxDay are tried
MaxMonth == 13
MaxDay == 32
\* up to this many stray characters are put before and after a timestamp
MaxExtra == 1

HyphenStyles == {<<"-">>, <<>>}
ColonStyles == {<<":">>, <<>>}

\* every date near a calendar boundary, alone
CalendarYears ==
    {0, 1} \cup (1583..(1583 + YearSpan)) \cup ((1900 - YearSpan)..(1900 + YearSpan))
    \cup ((2000 - YearSpan)..(2004 + YearSpan)) \cup ((9999 - YearSpan)..9999)

CalendarInput(s) ==
    \E y \in CalendarYears, h \in HyphenStyles, m \in 0..MaxMonth, d \in 0..MaxDay :
        s = Str4(y) \o h \o Str2(m) \o h \o Str2(d)

\* dates, times and timezones with each field at, and just past, its limit
SomeDates ==
    {y \o h \o m \o h \o d :
        y \in {Str4(0), Str4(2004)}, h \in HyphenStyles,
        m \in {Str2(0), Str2(2), Str2(13)}, d \in {Str2(0), Str2(29), Str2(30)}}

SomeTimes ==
    LET H == {Str2(23), Str2(24)}
        M == {Str2(59), Str2(60)}
        S == {Str2(59), Str2(60)}
        F == {<<"5">>}
    IN  {<<>>}
        \cup {<<"T">> \o h : h \in H}
        \cup {<<"T">> \o h \o c \o m : h \in H, c \in ColonStyles, m \in M}
        \cup {<<"T">> \o h \o c \o m \o c \o s :
                h \in H, c \in ColonStyles, m \in M, s \in S}
        \cup {<<"T">> \o h \o c \o m \o c \o s \o <<".">> \o f :
                h \in H, c \in ColonStyles, m \in M, s \in S, f \in F}

SomeZones ==
    LET H == {Str2(23), Str2(24)}
        M == {Str2(59), Str2(60)}
    IN  {<<>>, <<"Z">>}
        \cup {<<g>> \o h : g \in {"+", "-"}, h \in H}
        \cup {<<g>> \o h \o c \o m : g \in {"+", "-"}, h \in H, c \in ColonStyles, m \in M}

GeneralInput(s) ==
    \E d \in SomeDates, t \in SomeTimes, z \in SomeZones : s = d \o t \o z

\* one valid date, in both styles, with and without a time, and many offsets
ZoneInput(s) ==
    \E h \in HyphenStyles, t \in {0, 1, 2}, g \in {"+", "-"},
       zh \in {0, 3, 12, 23, 24}, c \in ColonStyles, zm \in {0, 1, 8, 59, 60} :
        s = Str4(1905) \o h \o Str2(12) \o h \o Str2(22)
            \o (CASE t = 0 -> <<>>
                  [] t = 1 -> <<"T">> \o Str2(0)
                  [] t = 2 -> <<"T">> \o Str2(23)
                              \o (IF h = <<>> THEN <<>> ELSE <<":">>) \o Str2(59))
            \o <<g>> \o Str2(zh) \o c \o Str2(zm)

\* one valid time with every fraction of 1..6 digits over a few digits, and
\* some of 7
FractionDigits == {"0", "1", "5", "7"}

FractionStem ==
    Str4(1996) \o <<"-">> \o Str2(2) \o <<"-">> \o Str2(10) \o <<"T">>
    \o Str2(8) \o <<":">> \o Str2(17) \o <<":">> \o Str2(17) \o <<".">>

FractionInput(s) ==
    \/ \E f \in StringsUpTo(FractionDigits, 6) \cup StringsUpTo({"4", "9"}, 6) :
          f /= <<>> /\ s = FractionStem \o f
    \/ \E f \in StringsUpTo({"0", "9"}, 6) : s = FractionStem \o f \o <<"5">>

\* well-formed timestamps, with stray characters around them, with one
\* character left out, and with one character replaced
WellFormed ==
    LET date == Str4(2004) \o <<"-">> \o Str2(2) \o <<"-">> \o Str2(29)
        basic == Str4(2004) \o Str2(2) \o Str2(29)
    IN  { date,
          basic \o <<"T">> \o Str2(23) \o Str2(59),
          date \o <<"T">> \o Str2(23) \o <<":">> \o Str2(59) \o <<":">> \o Str2(59)
              \o <<".", "5">>,
          date \o <<"T">> \o Str2(23) \o <<"Z">>,
          basic \o <<"T">> \o Str2(23) \o <<"+">> \o Str2(23) \o Str2(59),
          date \o <<"T">> \o Str2(23) \o <<":">> \o Str2(59) \o <<"-">> \o Str2(23)
              \o <<":">> \o Str2(59) }

ExtraChars == {"\n", " ", "\t"}
WrongChars == {"t", "z", " ", "/", "\n"}

GrammarInput(s) ==
    \/ \E w \in WellFormed :
       \E pre \in StringsUpTo(ExtraChars, MaxExtra),
          post \in StringsUpTo(ExtraChars, MaxExtra) : s = pre \o w \o post
    \/ \E w \in WellFormed : \E i \in 1..Len(w) :
          s = SubSeq(w, 1, i - 1) \o SubSeq(w, i + 1, Len(w))
    \/ \E w \in WellFormed : \E i \in 1..Len(w) : \E c \in WrongChars :
          s = [w EXCEPT ![i] = c]
    \/ s = <<>>

Init ==
    /\ \/ GeneralInput(timestamp)
       \/ CalendarInput(timestamp)
       \/ ZoneInput(timestamp)
       \/ FractionInput(timestamp)
       \/ GrammarInput(timestamp)
    /\ pc = "match"
    /\ match = MatchNone
    /\ year = -1
    /\ month = -1
    /\ day = -1
    /\ hour = -1
    /\ minute = -1
    /\ second = -1
    /\ microsecond = -1
    /\ tzinfo = <<>>
    /\ raised = ""
    /\ result = <<>>

Spec == Init /\ [][Next]_vars

(***************************************************************************)
(* Properties                                                              *)
(***************************************************************************)
Done == pc = "done"
Matched == match.pos /= 0
Outcome == [raised |-> raised, result |-> result]

\* the two renderings of the function agree on every call
StepsAgree == Done => parse_iso8601(timestamp) = Outcome

\* The calendar and the field ranges as the specification states them.
GregorianLeap(y) == y % 4 = 0 /\ (y % 100 /= 0 \/ y % 400 = 0)

GregorianMaxDay(y, m) ==
    IF m = 2 THEN (IF GregorianLeap(y) THEN 29 ELSE 28)
    ELSE IF m \in {4, 6, 9, 11} THEN 30
    ELSE 31

\* the value of a captured field, an absent one counting as 0
FieldVal(g) == IF g = None THEN 0 ELSE int(g)

ExtendedDate == match.hyphen = <<"-">>
ExtendedTime == match.colon = <<":">>
StylesDiffer == match.colon /= None /\ (ExtendedDate /= ExtendedTime)
SignedZone == match.sign /= None

RangeErrors ==
    {ErrYear, ErrMonth, ErrHour, ErrMinute, ErrSecond, ErrTzHour, ErrTzMinute}
LibraryErrors == {ErrKey, ErrTimezoneCtor, ErrDatetimeCtor}

\* C1: a grammar-matching input with a minute field whose date and time
\* separator styles differ always ends in the truncation-inconsistency error
\* and returns no timestamp, whatever else it holds.
C1_MixedTruncationFails ==
    (Done /\ Matched /\ match.minute /= None /\ (ExtendedDate /= ExtendedTime))
        => (raised = ErrTruncation /\ result = <<>>)

\* a mixed-style input with seconds, a fraction and a timezone was rejected
C1_Witness ==
    /\ Done /\ Matched /\ raised = ErrTruncation
    /\ ExtendedDate /\ ~ExtendedTime
    /\ match.subsecond /= None /\ match.timezone /= None

\* the grammar of the pattern with both ends anchored at the ends of the string
Conforms(w) == \E i \in 1..Len(ReBody(w)) : ReBody(w)[i].pos = Len(w) + 1

StrayAfter(s) ==
    Len(s) >= 1 /\ s[Len(s)] \in ExtraChars /\ Conforms(SubSeq(s, 1, Len(s) - 1))
StrayBefore(s) ==
    Len(s) >= 1 /\ s[1] \in ExtraChars /\ Conforms(SubSeq(s, 2, Len(s)))

\* C2: a grammar-conforming timestamp followed or preceded by a stray
\* character (a newline, a space or a tab) is rejected with the
\* format error and returns no timestamp.
C2_StrayCharacterRejected ==
    (Done /\ (StrayAfter(timestamp) \/ StrayBefore(timestamp)))
        => (raised = ErrFormat /\ result = <<>>)

\* the fraction d right-padded with zeros to six digits
PaddedMicroseconds(d) == int(d) * Pow10(6 - Len(d))

\* C3: the microsecond field of every returned timestamp is the captured
\* fraction right-padded with zeros to six digits, and 0 when there is none.
C3_MicrosecondExact ==
    (Done /\ result /= <<>>)
        => result[1].microsecond =
              (IF match.subsecond = None THEN 0
               ELSE PaddedMicroseconds(match.subsecond))

\* C4: a returned timestamp is naive when the input has no timezone, has
\* offset 0 when the timezone is Z, and otherwise has the offset
\* sign * (60 * tz_hour + tz_minute) minutes, an absent tz_minute counting 0.
C4_OffsetValue ==
    (Done /\ result /= <<>>)
        => result[1].tzinfo =
              (IF match.timezone = None THEN <<>>
               ELSE IF match.timezone = <<"Z">> THEN <<0>>
               ELSE << (IF match.sign = <<"+">> THEN 1 ELSE -1)
                       * (60 * FieldVal(match.tz_hour) + FieldVal(match.tz_minute)) >>)

\* an input ending in -0308 was returned with the offset -188
C4_Witness ==
    /\ Done /\ result /= <<>>
    /\ match.timezone = <<"-", "0", "3", "0", "8">>
    /\ result[1].tzinfo = <<0 - 188>>

\* the call got as far as the day check
ReachedDayCheck ==
    Done /\ Matched /\ raised \in {"", ErrDay} \cup LibraryErrors

\* C5: an input that passes every earlier check is returned if and only if
\* 1 <= day <= the Gregorian length of its month, and fails with the day
\* error otherwise.
C5_DayBound ==
    ReachedDayCheck =>
        LET ok == /\ 1 <= FieldVal(match.day)
                  /\ FieldVal(match.day)
                        <= GregorianMaxDay(FieldVal(match.year), FieldVal(match.month))
        IN  /\ ok <=> result /= <<>>
            /\ ~ok <=> raised = ErrDay

\* 29 February 1900 was rejected by the day check
C5_Witness ==
    /\ Done /\ raised = ErrDay
    /\ year = 1900 /\ month = 2 /\ day = 29

FieldOutOfRange ==
    \/ FieldVal(match.year) = 0
    \/ FieldVal(match.month) = 0 \/ FieldVal(match.month) > 12
    \/ FieldVal(match.hour) > 23
    \/ FieldVal(match.minute) > 59
    \/ FieldVal(match.second) > 59
    \/ FieldVal(match.tz_hour) > 23
    \/ FieldVal(match.tz_minute) > 59
    \/ FieldVal(match.day) = 0
    \/ FieldVal(match.day)
          > GregorianMaxDay(FieldVal(match.year), FieldVal(match.month))

\* C6: an input with any captured field out of range never yields a
\* timestamp: it ends in a field-range error, the day error, or the earlier
\* truncation error.
C6_OutOfRangeRejected ==
    (Done /\ Matched /\ FieldOutOfRange)
        => (result = <<>> /\ raised \in RangeErrors \cup {ErrDay, ErrTruncation})

\* second 60 was rejected with every other field in range
C6_Witness ==
    /\ Done /\ raised = ErrSecond /\ second = 60
    /\ FieldVal(match.tz_hour) <= 23 /\ FieldVal(match.tz_minute) <= 59
    /\ FieldVal(match.day) >= 1
    /\ FieldVal(match.day) <= GregorianMaxDay(year, month)

\* the input is YYYY-MM-DD and nothing else
DateOnlyExtended ==
    /\ Len(timestamp) = 10
    /\ timestamp[5] = "-" /\ timestamp[8] = "-"
    /\ \A i \in {1, 2, 3, 4, 6, 7, 9, 10} : timestamp[i] \in Digit

\* C7: the date-only string YYYY-MM-DD of a Gregorian date with year
\* 1583..9999 is returned as that year, month and day, with a zero time and
\* no offset.
C7_DateOnly ==
    (Done /\ DateOnlyExtended)
        => LET Y == int(SubSeq(timestamp, 1, 4))
               M == int(SubSeq(timestamp, 6, 7))
               D == int(SubSeq(timestamp, 9, 10))
           IN  (/\ 1583 <= Y /\ Y <= 9999
                /\ 1 <= M /\ M <= 12
                /\ 1 <= D /\ D <= GregorianMaxDay(Y, M))
               => result = << [year |-> Y, month |-> M, day |-> D, hour |-> 0,
                               minute |-> 0, second |-> 0, microsecond |-> 0,
                               tzinfo |-> <<>>] >>

\* 1583-01-31 was returned
C7_Witness ==
    /\ Done /\ DateOnlyExtended /\ result /= <<>>
    /\ result[1].year = 1583 /\ result[1].month = 1 /\ result[1].day = 31

\* the input with the separator of its offset switched: a colon taken out
\* of +hh:mm, or put into +hhmm
SwitchedOffset(s) ==
    LET start == match.pos - Len(match.timezone)
    IN  IF Len(match.timezone) = 6
        THEN SubSeq(s, 1, start + 2) \o SubSeq(s, start + 4, Len(s))
        ELSE SubSeq(s, 1, start + 2) \o <<":">> \o SubSeq(s, start + 3, Len(s))

\* C8: switching the separator inside a signed offset that has a minute part
\* changes neither whether the input is accepted nor what is returned or
\* raised, in both date/time styles; and the truncation error is raised only
\* when the date and time styles themselves differ.
C8_OffsetSeparatorIndependent ==
    (Done /\ Matched /\ match.tz_minute /= None)
        => /\ parse_iso8601(SwitchedOffset(timestamp)) = Outcome
           /\ raised = ErrTruncation => StylesDiffer

\* a truncated date and time with an extended offset was returned
C8_Witness ==
    /\ Done /\ result /= <<>>
    /\ match.hyphen = <<>> /\ match.colon = <<>>
    /\ match.tz_minute /= None /\ Len(match.timezone) = 6

\* the first rule violated, in the order truncation, year, month, hour,
\* minute, second, tz_hour, tz_minute, day; "" when none is
FirstViolation ==
    IF StylesDiffer THEN ErrTruncation
    ELSE IF FieldVal(match.year) < 1 THEN ErrYear
    ELSE IF FieldVal(match.month) < 1 \/ FieldVal(match.month) > 12 THEN ErrMonth
    ELSE IF FieldVal(match.hour) > 23 THEN ErrHour
    ELSE IF FieldVal(match.minute) > 59 THEN ErrMinute
    ELSE IF FieldVal(match.second) > 59 THEN ErrSecond
    ELSE IF SignedZone /\ FieldVal(match.tz_hour) > 23 THEN ErrTzHour
    ELSE IF SignedZone /\ FieldVal(match.tz_minute) > 59 THEN ErrTzMinute
    ELSE IF \/ FieldVal(match.day) < 1
            \/ FieldVal(match.day)
                  > GregorianMaxDay(FieldVal(match.year), FieldVal(match.month))
    THEN ErrDay
    ELSE ""

\* C9: every call ends either raising or returning, never both or neither,
\* and a grammar-matching input that breaks several rules reports the first
\* one in the order truncation, year, month, hour, minute, second, tz_hour,
\* tz_minute, day.
C9_FirstViolationReported ==
    Done => /\ (raised = "") /= (result = <<>>)
            /\ Matched => raised = FirstViolation
            /\ ~Matched => raised = ErrFormat

\* a month out of range was reported for an input whose hour, offset and day
\* are out of range too
C9_Witness ==
    /\ Done /\ raised = ErrMonth
    /\ FieldVal(match.hour) > 23
    /\ FieldVal(match.tz_hour) > 23
    /\ FieldVal(match.day) = 0

\* C10: the values that reach the timestamp constructor are within its
\* domain, the offset is less than 24 hours in size, the month's length is
\* looked up with a month in 1..12 only, and so the standard library never
\* raises.
C10_BuilderCannotFail ==
    /\ pc = "day" => /\ month \in 1..12
                     /\ tzinfo /= <<>> =>
                            (0 - 1439 <= tzinfo[1] /\ tzinfo[1] <= 23 * 60 + 59)
    /\ pc = "return" =>
          /\ 1 <= year /\ year <= 9999
          /\ 1 <= month /\ month <= 12
          /\ 1 <= day /\ day <= GregorianMaxDay(year, month)
          /\ 0 <= hour /\ hour <= 23
          /\ 0 <= minute /\ minute <= 59
          /\ 0 <= second /\ second <= 59
          /\ 0 <= microsecond /\ microsecond <= 999999
    /\ Done => raised \notin LibraryErrors

\* the largest fraction reached the constructor
C10_Witness ==
    pc = "return" /\ microsecond = 999999

====
